---- MODULE Spec2Model ----
(***************************************************************************)
(* Diabetes risk assessment: the Mamdani fuzzy engine FuzzyDiabetesSystem  *)
(* (src/diabetes_gui.py:12-73) and the 'Assess Risk' / 'Update             *)
(* Visualization' handlers of DiabetesApp (src/diabetes_gui.py:132-184).   *)
(*                                                                         *)
(* Real numbers are exact rationals.  A membership degree is a fraction    *)
(* [n, d]; inside the inference it is an integer number of 1/DegScale.     *)
(* An abscissa of the risk universe is an integer number of 1/XScale.      *)
(* Crisp inputs are integers (the grid of the antecedent universes), so    *)
(* every degree the rules use is a multiple of 1/300 and every point the   *)
(* defuzzifier adds to the risk grid is a multiple of 1/15: all the        *)
(* arithmetic below is exact.  Floating-point rounding is not modelled.    *)
(***************************************************************************)
EXTENDS Integers, Sequences, FiniteSets, TLC

VARIABLES
    diagnosis_sim,  \* the ControlSystemSimulation shared by every call
    pc,             \* position of each caller inside assess_risk
    args,           \* the arguments of each caller's call
    ret,            \* what each caller's call returned
    stdout,         \* number of "Error: ..." lines printed (line 72)
    fields,         \* text of the three ttk.Entry widgets
    result_label,   \* text / foreground of the result label
    figure,         \* what the figure shows
    msgbox,         \* the message boxes shown so far, latest last (bounded)
    rules,          \* self.rules, the ordered rule list
    probe           \* a (variable, term, x) sample of a membership array

vars == <<diagnosis_sim, pc, args, ret, stdout, fields, result_label,
          figure, msgbox, rules, probe>>

\* Python's None; a value that is present is the one-element tuple <<v>>.
None == <<>>

Some(v) == <<v>>

Val(o) == o[1]

-----------------------------------------------------------------------------
(* Rationals                                                               *)

Frac(n, d) == [n |-> n, d |-> d]

Zero == Frac(0, 1)

One == Frac(1, 1)

\* lcm of the slope denominators of the terms the inference evaluates:
\* 20, 25 (blood_sugar), 4, 3 (bmi), 30, 20, 15 (age), 40, 20 (risk).
DegScale == 15 * 40

\* The defuzzifier's abscissae are multiples of 1/15.
XScale == DegScale \div 40

Scaled(f) == (f.n * DegScale) \div f.d

\* F applied to the value of e, with e evaluated once.
Once(e, F(_)) == CHOOSE r \in {F(x) : x \in {e}} : TRUE

fmin(a, b) == IF a <= b THEN a ELSE b

fmax(a, b) == IF a >= b THEN a ELSE b

-----------------------------------------------------------------------------
(* Universes and membership functions                                      *)

\* self.ranges: np.arange(lo, hi, 1) is lo .. hi-1
ranges ==
    [blood_sugar |-> <<0, 301>>, bmi |-> <<0, 51>>,
     age |-> <<0, 101>>, risk |-> <<0, 101>>]

Universe(v) == ranges[v][1] .. (ranges[v][2] - 1)

Antecedents == <<"blood_sugar", "bmi", "age">>

AntecedentSet == {"blood_sugar", "bmi", "age"}

\* Control points in half units (18.5 is 37), as fuzz.trimf / fuzz.trapmf
\* receive them.
MFParams ==
    [blood_sugar |->
        [low |-> <<0, 0, 160>>, normal |-> <<140, 180, 220>>,
         high |-> <<200, 250, 300>>, very_high |-> <<280, 320, 600, 600>>],
     bmi |->
        [underweight |-> <<0, 0, 37>>, normal |-> <<36, 44, 50>>,
         overweight |-> <<48, 54, 60>>, obese |-> <<58, 64, 100, 100>>],
     age |->
        [young |-> <<0, 0, 60>>, middle_aged |-> <<50, 90, 120>>,
         elderly |-> <<100, 130, 200, 200>>],
     risk |->
        [low |-> <<0, 0, 80>>, medium |-> <<60, 100, 140>>,
         high |-> <<120, 200, 200>>]]

Terms(v) == DOMAIN MFParams[v]

\* Variant of trimf that leaves out the final y[x == b] = 1.
trimfNoPeak(x, abc) ==
    LET a == abc[1]
        b == abc[2]
        c == abc[3]
    IN  IF a # b /\ a < x /\ x < b THEN Frac(x - a, b - a)
        ELSE IF b # c /\ b < x /\ x < c THEN Frac(c - x, c - b)
        ELSE Zero

\* skfuzzy trimf at one point x (half units), abc = <<a, b, c>>.
trimf(x, abc) ==
    LET a == abc[1]
        b == abc[2]
        c == abc[3]
    IN  IF x = b THEN One
        ELSE IF a # b /\ a < x /\ x < b THEN Frac(x - a, b - a)
        ELSE IF b # c /\ b < x /\ x < c THEN Frac(c - x, c - b)
        ELSE Zero

\* skfuzzy trapmf at one point x (half units), abcd = <<a, b, c, d>>.
trapmf(x, abcd) ==
    LET a == abcd[1]
        b == abcd[2]
        c == abcd[3]
        d == abcd[4]
    IN  IF x < a \/ x > d THEN Zero
        ELSE IF x >= c THEN trimf(x, <<c, c, d>>)
        ELSE IF x <= b THEN trimf(x, <<a, b, b>>)
        ELSE One

\* The array self.<v>[t].mf at grid point x of the universe of v.
mf(v, t, x) ==
    LET p == MFParams[v][t]
    IN  IF Len(p) = 3 THEN trimf(2 * x, p) ELSE trapmf(2 * x, p)

-----------------------------------------------------------------------------
(* The rule base                                                           *)

Rule(label, ante, cons) == [label |-> label, ante |-> ante, cons |-> cons]

\* self.rules as _setup_rules builds it; a & b & c is (a & b) & c.
RuleBase == <<
    Rule(1, <<<<"blood_sugar", "normal">>, <<"bmi", "normal">>, <<"age", "young">>>>, "low"),
    Rule(2, <<<<"blood_sugar", "normal">>, <<"bmi", "normal">>, <<"age", "middle_aged">>>>, "low"),
    Rule(3, <<<<"blood_sugar", "high">>, <<"bmi", "overweight">>>>, "medium"),
    Rule(4, <<<<"blood_sugar", "normal">>, <<"bmi", "obese">>>>, "medium"),
    Rule(5, <<<<"blood_sugar", "high">>, <<"age", "elderly">>>>, "medium"),
    Rule(6, <<<<"blood_sugar", "very_high">>, <<"bmi", "obese">>>>, "high"),
    Rule(7, <<<<"blood_sugar", "very_high">>, <<"age", "elderly">>>>, "high"),
    Rule(8, <<<<"blood_sugar", "high">>, <<"bmi", "obese">>, <<"age", "elderly">>>>, "high")
>>

Labels == 1 .. Len(RuleBase)

RiskTerms == Terms("risk")

-----------------------------------------------------------------------------
(* ControlSystemSimulation: fuzzification, rule evaluation, accumulation   *)

\* _InputAcceptor.__setitem__ with clip_to_bounds: the value is clipped to
\* the universe of the antecedent.
Clip(v, x) == fmax(fmin(x, ranges[v][2] - 1), ranges[v][1])

\* CrispValueCalculator.fuzz: the degree of every term of every antecedent
\* at its input (interp_membership at a grid point is the array's value).
Fuzz(in) ==
    [v \in AntecedentSet |-> [t \in Terms(v) |-> mf(v, t, in[v])]]

\* Variant of AndFunc: the product t-norm (and_func = np.multiply).
AndFuncProduct(a, b) == (a * b) \div DegScale

\* The Mamdani AND of a Rule's '&' (TermAggregate, and_func = np.fmin).
AndFunc(a, b) == fmin(a, b)

RECURSIVE AndFold(_, _, _, _)
AndFold(ante, fz, i, acc) ==
    IF i > Len(ante) THEN acc
    ELSE AndFold(ante, fz, i + 1,
                 AndFunc(acc, Scaled(fz[ante[i][1]][ante[i][2]])))

\* rule.antecedent.membership_value: the left-nested '&' of the rule.
AntecedentValue(r, fz) ==
    AndFold(r.ante, fz, 2, Scaled(fz[r.ante[1][1]][r.ante[1][2]]))

\* Variant of AccumulationMethod: the bounded sum of the cuts.
AccumulationSum(a, b) == fmin(a + b, DegScale)

\* Consequent.accumulation_method (np.fmax).
AccumulationMethod(a, b) == fmax(a, b)

\* compute_rule for the rules rs[i..], in order.  st = [firing, cut] is the
\* per-unique_id state; compute() clears the consequent of the first rule
\* only.
\* compute_rule for rule r on the state st.
compute_rule(r, value, st) ==
    [firing |-> [st.firing EXCEPT ![r.label] = Some(value)],
     cut |-> [st.cut EXCEPT ![r.cons] =
                 IF @ = None THEN Some(value)
                 ELSE Some(AccumulationMethod(value, Val(@)))]]

RECURSIVE compute_rules(_, _, _, _)
compute_rules(rs, fz, i, st) ==
    IF i > Len(rs) THEN st
    ELSE Once(compute_rule(rs[i], AntecedentValue(rs[i], fz),
                          IF i = 1
                          THEN [st EXCEPT !.cut[rs[i].cons] = None]
                          ELSE st),
              LAMBDA st2 : compute_rules(rs, fz, i + 1, st2))

\* The state a unique_id starts with: nothing computed.
FreshState ==
    [firing |-> [l \in Labels |-> None], cut |-> [t \in RiskTerms |-> None]]

-----------------------------------------------------------------------------
(* Defuzzification: CrispValueCalculator.defuzz, skfuzzy defuzz/centroid   *)

\* interp_membership(risk.universe, risk[t].mf, x) at abscissa x15/XScale,
\* in 1/DegScale.
interp_membership(t, x15) ==
    LET k == x15 \div XScale
        j == x15 % XScale
        y0 == Scaled(mf("risk", t, k))
    IN  IF j = 0 THEN y0
        ELSE y0 + ((Scaled(mf("risk", t, k + 1)) - y0) * j) \div XScale

\* _interp_universe_fast: the abscissae (in 1/XScale) where the array of
\* term t crosses its cut c (in 1/DegScale).
interp_universe(t, c) ==
    LET p == MFParams["risk"][t]
        a == (p[1] * XScale) \div 2
        b == (p[2] * XScale) \div 2
        d == (p[3] * XScale) \div 2
    IN  (IF a # b THEN {a + (c * (b - a)) \div DegScale} ELSE {})
        \cup (IF b # d THEN {d - (c * (d - b)) \div DegScale} ELSE {})

\* find_memberships: the points added to the risk universe.
new_values(cut) ==
    UNION {interp_universe(t, Val(cut[t])) : t \in {u \in RiskTerms : cut[u] # None}}

\* find_memberships: output_mf at one abscissa: zero, raised by each term
\* that has a cut to min(cut, upsampled mf).
Clipped(cut, t, x15) ==
    IF cut[t] = None THEN 0 ELSE fmin(Val(cut[t]), interp_membership(t, x15))

output_mf(cut, x15) ==
    fmax(fmax(fmax(0, Clipped(cut, "low", x15)), Clipped(cut, "medium", x15)),
         Clipped(cut, "high", x15))

\* The centre about which the first moment is accumulated (50, in 1/XScale).
Mid == 50 * XScale

\* centroid(): one trapezoid between consecutive points; a is twice the
\* area, m six times the moment about Mid, s the sum of mfx.
Segment(x1, y1, x2, y2) ==
    [a |-> (x2 - x1) * (y1 + y2),
     m |-> (x2 - x1) * (y1 * (2 * (x1 - Mid) + (x2 - Mid))
                        + y2 * ((x1 - Mid) + 2 * (x2 - Mid))),
     s |-> y2]

Plus(p, q) == [a |-> p.a + q.a, m |-> p.m + q.m, s |-> p.s + q.s]

\* The least point of a non-empty set of abscissae.
Least(ps) == CHOOSE p \in ps : \A q \in ps : p <= q

\* The trapezoids of new_universe between x1 and the grid point hi, in
\* order; inner holds the added points of this grid cell.
RECURSIVE Cell(_, _, _, _, _, _)
Cell(cut, inner, x1, y1, hi, yhi) ==
    IF \A p \in inner : p <= x1 THEN Segment(x1, y1, hi, yhi)
    ELSE Once(Least({p \in inner : p > x1}), LAMBDA x2 :
         Once(output_mf(cut, x2), LAMBDA y2 :
              Plus(Segment(x1, y1, x2, y2), Cell(cut, inner, x2, y2, hi, yhi))))

\* The trapezoids of the grid cells lo .. hi-1 of the risk universe; ylo
\* and yhi are output_mf at the grid points lo and hi.
RECURSIVE Sweep(_, _, _, _, _, _)
Sweep(cut, new, lo, ylo, hi, yhi) ==
    IF hi = lo + 1
    THEN Cell(cut, {p \in new : lo * XScale < p /\ p < hi * XScale},
              lo * XScale, ylo, hi * XScale, yhi)
    ELSE Once(output_mf(cut, ((lo + hi) \div 2) * XScale), LAMBDA ymid :
              Plus(Sweep(cut, new, lo, ylo, (lo + hi) \div 2, ymid),
                   Sweep(cut, new, (lo + hi) \div 2, ymid, hi, yhi)))

\* A crisp value w + n/d with 0 <= n < d.
Crisp(w, n, d) == [w |-> w, n |-> n, d |-> d]

\* Variant of centroid without the assertion on a zero total: the quotient
\* 0 / eps is returned as a computed value.
centroidNoAssert(tot, y0) ==
    IF tot.a = 0
    THEN [raised |-> FALSE, value |-> Crisp(0, 0, 1)]
    ELSE [raised |-> FALSE,
          value |-> Crisp(50 + (tot.m \div (3 * XScale * tot.a)),
                          tot.m % (3 * XScale * tot.a),
                          3 * XScale * tot.a)]

\* Variant of centroid whose moment of a trapezoid misses the factor 1/3.
centroidMoment(tot, y0) ==
    IF tot.s + y0 = 0
    THEN [raised |-> TRUE, value |-> Crisp(0, 0, 1)]
    ELSE [raised |-> FALSE,
          value |-> Crisp(50 + (tot.m \div (XScale * tot.a)),
                          tot.m % (XScale * tot.a),
                          XScale * tot.a)]

\* defuzz(): the centroid from the sums tot, or the AssertionError of a
\* zero total.
centroid(tot, y0) ==
    IF tot.s + y0 = 0
    THEN [raised |-> TRUE, value |-> Crisp(0, 0, 1)]
    ELSE [raised |-> FALSE,
          value |-> Crisp(50 + (tot.m \div (3 * XScale * tot.a)),
                          tot.m % (3 * XScale * tot.a),
                          3 * XScale * tot.a)]

\* CrispValueCalculator.defuzz for the risk consequent: the centroid of
\* output_mf over new_universe, or raised |-> TRUE for the ValueError
\* ("No terms have memberships" / "Crisp output cannot be calculated").
defuzz(cut) ==
    IF \A t \in RiskTerms : cut[t] = None
    THEN [raised |-> TRUE, value |-> Crisp(0, 0, 1)]
    ELSE Once(new_values(cut), LAMBDA new :
         Once(output_mf(cut, ranges["risk"][1] * XScale), LAMBDA ylo :
         Once(output_mf(cut, (ranges["risk"][2] - 1) * XScale), LAMBDA yhi :
         Once(Sweep(cut, new, ranges["risk"][1], ylo, ranges["risk"][2] - 1, yhi),
              LAMBDA tot : centroid(tot, ylo)))))

-----------------------------------------------------------------------------
(* ControlSystemSimulation: the object and compute()                       *)

\* ControlSystemSimulation(self.control_system): no input set, no output,
\* nothing calculated.  state maps a unique_id (the current inputs) to the
\* per-simulation values of the rules and of the risk terms.
NewSimulation ==
    [input |-> [v \in AntecedentSet |-> None],
     output |-> None,
     calculated |-> {},
     state |-> <<>>]

\* self.diagnosis_sim.input[v] = x
SetInput(sim, v, x) == [sim EXCEPT !.input[v] = Some(Clip(v, x))]

\* sim.unique_id: a hash of the current inputs, taken as the inputs.
UniqueId(sim) == <<sim.input["blood_sugar"], sim.input["bmi"], sim.input["age"]>>

StateOf(sim, id) ==
    IF id \in DOMAIN sim.state THEN sim.state[id]
    ELSE [firing |-> FreshState.firing, cut |-> FreshState.cut, out |-> None]

Put(f, k, v) == [x \in DOMAIN f \cup {k} |-> IF x = k THEN v ELSE f[x]]

\* compute() once the rules have run: st is the state of the unique_id
\* after them, d what defuzz gave.  When defuzz raises, the state of the
\* unique_id stays and neither the output nor the cache is written.
Collect(sim, id, st, d) ==
    IF d.raised
    THEN [sim |-> [sim EXCEPT !.state =
                      Put(@, id, [firing |-> st.firing, cut |-> st.cut,
                                  out |-> StateOf(sim, id).out])],
          raised |-> TRUE]
    ELSE [sim |-> [sim EXCEPT
                      !.state = Put(@, id, [firing |-> st.firing,
                                            cut |-> st.cut,
                                            out |-> Some(d.value)]),
                      !.output = Some(d.value),
                      !.calculated = @ \cup {id}],
          raised |-> FALSE]

\* self.diagnosis_sim.compute() with the rule list rs: the simulation after
\* it and whether it raised.  A unique_id already calculated is answered
\* from the cache; otherwise the rules are evaluated on top of whatever
\* state the unique_id holds and the result is defuzzified.
compute(sim, rs) ==
    IF UniqueId(sim) \in sim.calculated
    THEN [sim |-> [sim EXCEPT !.output = StateOf(sim, UniqueId(sim)).out],
          raised |-> FALSE]
    ELSE IF \E v \in AntecedentSet : sim.input[v] = None
    THEN [sim |-> sim, raised |-> TRUE]
    ELSE Once(compute_rules(rs, Fuzz([v \in AntecedentSet |-> Val(sim.input[v])]), 1,
                           [firing |-> StateOf(sim, UniqueId(sim)).firing,
                            cut |-> StateOf(sim, UniqueId(sim)).cut]),
              LAMBDA st :
         Once(defuzz(st.cut), LAMBDA d : Collect(sim, UniqueId(sim), st, d)))

\* Variant of Return whose except branch falls through to line 70 and
\* returns the output an earlier call left in the simulation.
ReturnStale(c) ==
    IF c.raised /\ c.sim.output = None
    THEN [sim |-> c.sim, ret |-> Crisp(0, 0, 1), printed |-> TRUE]
    ELSE [sim |-> c.sim, ret |-> Val(c.sim.output), printed |-> c.raised]

\* Variant of Return whose except branch returns -1.
ReturnMinusOne(c) ==
    IF c.raised
    THEN [sim |-> c.sim, ret |-> Crisp(0 - 1, 0, 1), printed |-> TRUE]
    ELSE [sim |-> c.sim, ret |-> Val(c.sim.output), printed |-> FALSE]

\* assess_risk after compute(): c is what compute() gave.
Return(c) ==
    IF c.raised
    THEN [sim |-> c.sim, ret |-> Crisp(0, 0, 1), printed |-> TRUE]
    ELSE [sim |-> c.sim, ret |-> Val(c.sim.output), printed |-> FALSE]

\* FuzzyDiabetesSystem.assess_risk run from start to end by one caller:
\* the simulation after it, the value returned and whether line 72 printed.
assess_risk(sim, rs, a) ==
    Once(SetInput(SetInput(SetInput(sim, "blood_sugar", a.blood_sugar),
                           "bmi", a.bmi), "age", a.age),
         LAMBDA s3 : Once(compute(s3, rs), LAMBDA c : Return(c)))

\* risk_level < k for a crisp value and an integer k.
Below(r, k) == r.w < k

\* Variant of Category with the Medium threshold at 50.
CategoryShifted(risk_level) ==
    IF Below(risk_level, 40) THEN "Low"
    ELSE IF Below(risk_level, 50) THEN "Medium" ELSE "High"

\* DiabetesApp._update_result_display: the category of a score.
Category(risk_level) ==
    IF Below(risk_level, 40) THEN "Low"
    ELSE IF Below(risk_level, 70) THEN "Medium" ELSE "High"

-----------------------------------------------------------------------------
(* One call on a freshly constructed FuzzyDiabetesSystem, for every sampled *)
(* input triple and several orders of the rule list.                       *)

BloodSugarStride == 25

BmiStride == 6

AgeStride == 15

\* Sampled crisp inputs: a stride through each validated range with the
\* range's upper end, and the documented scenarios.
Samples(v, stride) ==
    {x \in Universe(v) : x % stride = 0} \cup {ranges[v][2] - 1}

Args(a, b, c) == [blood_sugar |-> a, bmi |-> b, age |-> c]

Scenario1 == Args(95, 22, 25)

Scenario2 == Args(170, 33, 70)

Scenario3 == Args(130, 28, 45)

\* Rules 6 and 7 both fire, with different strengths, on the term high.
TwoHighRules == Args(150, 30, 60)

EngineInputs ==
    {Args(a, b, c) : a \in Samples("blood_sugar", BloodSugarStride),
                     b \in Samples("bmi", BmiStride),
                     c \in Samples("age", AgeStride)}
    \cup {Scenario1, Scenario2, Scenario3, TwoHighRules}

Reverse(q) == [i \in 1 .. Len(q) |-> q[Len(q) + 1 - i]]

Rotate(q, k) == [i \in 1 .. Len(q) |-> q[((i - 1 + k) % Len(q)) + 1]]

RuleOrders == {RuleBase, Reverse(RuleBase), Rotate(RuleBase, 3)}

Callers == {"A", "B"}

NoArgs == Args(0, 0, 0)

NoRet == Crisp(0, 0, 1)

\* The "Error: ..." lines counted on stdout.
MaxPrinted == 2

BlankFields == [v \in AntecedentSet |-> <<>>]

\* The result label as _create_widgets leaves it; tenths is the number the
\* text shows, in tenths of a percent.
AwaitingLabel ==
    [text |-> "Awaiting assessment...", tenths |-> 0, category |-> "",
     foreground |-> ""]

\* plt.Figure(): nothing drawn.
BlankFigure == [drawn |-> FALSE, markers |-> None]

NoProbe == [v |-> "risk", t |-> "low", x |-> 0, degree |-> None]

InitApp ==
    /\ stdout = 0
    /\ fields = BlankFields
    /\ result_label = AwaitingLabel
    /\ figure = BlankFigure
    /\ msgbox = None

InitIdle ==
    /\ pc = [c \in Callers |-> "idle"]
    /\ args = [c \in Callers |-> NoArgs]
    /\ ret = [c \in Callers |-> NoRet]

UnchangedApp == UNCHANGED <<fields, result_label, figure, msgbox>>

-----------------------------------------------------------------------------
(* SpecEngine: one call on a freshly constructed FuzzyDiabetesSystem, for  *)
(* every sampled input triple and several orders of the rule list.         *)

InitEngine ==
    /\ diagnosis_sim = NewSimulation
    /\ rules \in RuleOrders
    /\ pc = [c \in Callers |-> "idle"]
    /\ \E a \in EngineInputs :
           args = [k \in Callers |-> IF k = "A" THEN a ELSE NoArgs]
    /\ ret = [c \in Callers |-> NoRet]
    /\ InitApp
    /\ probe = NoProbe

\* Caller A runs assess_risk(**args) once.
Call ==
    /\ pc["A"] = "idle"
    /\ \E r \in {assess_risk(diagnosis_sim, rules, args["A"])} :
           /\ diagnosis_sim' = r.sim
           /\ ret' = [ret EXCEPT !["A"] = r.ret]
           /\ stdout' = stdout + (IF r.printed THEN 1 ELSE 0)
    /\ pc' = [pc EXCEPT !["A"] = "done"]
    /\ UNCHANGED <<args, rules, probe>>
    /\ UnchangedApp

NextEngine == Call

SpecEngine == InitEngine /\ [][NextEngine]_vars

-----------------------------------------------------------------------------
(* SpecCalls: caller A calls assess_risk again and again on one instance.  *)

\* Inputs of the repeated calls: two that fire no rule, the documented
\* scenarios, and one outside the universe (clipped by the simulation).
CallInputs ==
    {Args(0, 0, 0), Args(60, 10, 20), Scenario1, Scenario2, Scenario3,
     Args(400, 33, 70)}

InitCalls ==
    /\ diagnosis_sim = NewSimulation
    /\ rules = RuleBase
    /\ InitIdle
    /\ InitApp
    /\ probe = NoProbe

Invoke(a) ==
    /\ stdout < MaxPrinted
    /\ \E r \in {assess_risk(diagnosis_sim, rules, a)} :
           /\ diagnosis_sim' = r.sim
           /\ ret' = [ret EXCEPT !["A"] = r.ret]
           /\ stdout' = stdout + (IF r.printed THEN 1 ELSE 0)
    /\ args' = [args EXCEPT !["A"] = a]
    /\ pc' = [pc EXCEPT !["A"] = "done"]
    /\ UNCHANGED <<rules, probe>>
    /\ UnchangedApp

NextCalls == \E a \in CallInputs : Invoke(a)

SpecCalls == InitCalls /\ [][NextCalls]_vars

-----------------------------------------------------------------------------
(* SpecConc: two callers run assess_risk on one shared instance, line by   *)
(* line (lines 64, 65, 66, 69, 70).                                        *)

ConcInputs == {Scenario1, Scenario2, Scenario3}

InitConc ==
    /\ diagnosis_sim = NewSimulation
    /\ rules = RuleBase
    /\ pc = [c \in Callers |-> "l64"]
    /\ args \in [Callers -> ConcInputs]
    /\ ret = [c \in Callers |-> NoRet]
    /\ InitApp
    /\ probe = NoProbe

UnchangedConc == UNCHANGED <<args, rules, probe>> /\ UnchangedApp

\* self.diagnosis_sim.input['blood_sugar'] = blood_sugar
Line64(c) ==
    /\ pc[c] = "l64"
    /\ diagnosis_sim' = SetInput(diagnosis_sim, "blood_sugar", args[c].blood_sugar)
    /\ pc' = [pc EXCEPT ![c] = "l65"]
    /\ UNCHANGED <<ret, stdout>>
    /\ UnchangedConc

\* self.diagnosis_sim.input['bmi'] = bmi
Line65(c) ==
    /\ pc[c] = "l65"
    /\ diagnosis_sim' = SetInput(diagnosis_sim, "bmi", args[c].bmi)
    /\ pc' = [pc EXCEPT ![c] = "l66"]
    /\ UNCHANGED <<ret, stdout>>
    /\ UnchangedConc

\* self.diagnosis_sim.input['age'] = age
Line66(c) ==
    /\ pc[c] = "l66"
    /\ diagnosis_sim' = SetInput(diagnosis_sim, "age", args[c].age)
    /\ pc' = [pc EXCEPT ![c] = "l69"]
    /\ UNCHANGED <<ret, stdout>>
    /\ UnchangedConc

\* self.diagnosis_sim.compute(), and the except branch when it raises
Line69(c) ==
    /\ pc[c] = "l69"
    /\ stdout < MaxPrinted
    /\ \E r \in {compute(diagnosis_sim, rules)} :
           /\ diagnosis_sim' = r.sim
           /\ IF r.raised
              THEN /\ ret' = [ret EXCEPT ![c] = Crisp(0, 0, 1)]
                   /\ stdout' = stdout + 1
                   /\ pc' = [pc EXCEPT ![c] = "done"]
              ELSE /\ UNCHANGED <<ret, stdout>>
                   /\ pc' = [pc EXCEPT ![c] = "l70"]
    /\ UnchangedConc

\* return self.diagnosis_sim.output['risk']
Line70(c) ==
    /\ pc[c] = "l70"
    /\ ret' = [ret EXCEPT ![c] = Val(diagnosis_sim.output)]
    /\ pc' = [pc EXCEPT ![c] = "done"]
    /\ UNCHANGED <<diagnosis_sim, stdout>>
    /\ UnchangedConc

NextConc ==
    \E c \in Callers :
        Line64(c) \/ Line65(c) \/ Line66(c) \/ Line69(c) \/ Line70(c)

SpecConc == InitConc /\ [][NextConc]_vars

-----------------------------------------------------------------------------
(* SpecMF: the membership arrays _setup_membership_functions builds, one   *)
(* sample at a time.                                                       *)

Variables == {"blood_sugar", "bmi", "age", "risk"}

InitMF ==
    /\ diagnosis_sim = NewSimulation
    /\ rules = RuleBase
    /\ InitIdle
    /\ InitApp
    /\ \E v \in Variables : \E t \in Terms(v), x \in Universe(v) :
           probe = [v |-> v, t |-> t, x |-> x, degree |-> None]

\* self.<v>[t] = fuzz.trimf / fuzz.trapmf(universe, points), at index x.
Evaluate ==
    /\ probe.degree = None
    /\ probe' = [probe EXCEPT !.degree = Some(mf(probe.v, probe.t, probe.x))]
    /\ UNCHANGED <<diagnosis_sim, pc, args, ret, stdout, rules>>
    /\ UnchangedApp

NextMF == Evaluate

SpecMF == InitMF /\ [][NextMF]_vars

-----------------------------------------------------------------------------
(* Spec: the DiabetesApp window.  The user types into the three entries,   *)
(* clicks 'Assess Risk' or 'Update Visualization', and dismisses the modal *)
(* message box.                                                            *)

Digit ==
    [c \in {"0", "1", "2", "3", "4", "5", "6", "7", "8", "9"} |->
        CASE c = "0" -> 0 [] c = "1" -> 1 [] c = "2" -> 2 [] c = "3" -> 3
          [] c = "4" -> 4 [] c = "5" -> 5 [] c = "6" -> 6 [] c = "7" -> 7
          [] c = "8" -> 8 [] c = "9" -> 9]

RECURSIVE DigitsValue(_, _, _)
DigitsValue(text, i, acc) ==
    IF i > Len(text) THEN acc
    ELSE DigitsValue(text, i + 1, 10 * acc + Digit[text[i]])

\* float(entry.get()) for a text of characters: an optional sign and
\* decimal digits, or nan; anything else is a ValueError (ok |-> FALSE).
\* Fractions and exponents are left out: the crisp inputs are integers.
ParseFloat(text) ==
    LET signed == text # <<>> /\ text[1] \in {"-", "+"}
        body == IF signed THEN Tail(text) ELSE text
    IN  IF body = <<"n", "a", "n">>
        THEN [ok |-> TRUE, nan |-> TRUE, v |-> 0]
        ELSE IF body = <<>> \/ \E i \in 1 .. Len(body) : body[i] \notin DOMAIN Digit
        THEN [ok |-> FALSE, nan |-> FALSE, v |-> 0]
        ELSE [ok |-> TRUE, nan |-> FALSE,
              v |-> (IF signed /\ text[1] = "-" THEN 0 - 1 ELSE 1)
                    * DigitsValue(body, 1, 0)]

\* The dict comprehension of lines 134 and 165: it raises ValueError when
\* some entry does not parse.
Parses(fs) == \A v \in AntecedentSet : ParseFloat(fs[v]).ok

Values(fs) == [v \in AntecedentSet |-> ParseFloat(fs[v])]

\* DiabetesApp._validate_inputs: the first key, in the order of the dict,
\* whose value is not within its range (nan compares false), or None.
ValidationRanges ==
    [blood_sugar |-> <<0, 300>>, bmi |-> <<0, 50>>, age |-> <<0, 100>>]

Within(x, key) ==
    /\ ~x.nan
    /\ ValidationRanges[key][1] <= x.v
    /\ x.v <= ValidationRanges[key][2]

RECURSIVE FirstInvalid(_, _)
FirstInvalid(values, i) ==
    IF i > Len(Antecedents) THEN None
    ELSE IF ~Within(values[Antecedents[i]], Antecedents[i])
    THEN Some(Antecedents[i])
    ELSE FirstInvalid(values, i + 1)

\* Variant of validate_inputs that tests the upper ends only.
validate_inputsUpperOnly(values) ==
    IF \E k \in AntecedentSet : values[k].v > ValidationRanges[k][2]
    THEN Some(CHOOSE k \in AntecedentSet : values[k].v > ValidationRanges[k][2])
    ELSE None

validate_inputs(values) == FirstInvalid(values, 1)

\* f"{risk_level:.1f}": the score in tenths, rounded.
Tenths(r) == 10 * r.w + (20 * r.n + r.d) \div (2 * r.d)

colors == [Low |-> "green", Medium |-> "orange", High |-> "red"]

\* DiabetesApp._update_result_display
update_result_display(risk_level) ==
    [text |-> "Risk Level", tenths |-> Tenths(risk_level),
     category |-> Category(risk_level),
     foreground |-> colors[Category(risk_level)]]

\* DiabetesApp.update_visualization: the four plots, with the markers of
\* the entries when they all parse.
plot_membership_functions(fs) ==
    [drawn |-> TRUE, markers |-> IF Parses(fs) THEN Some(Values(fs)) ELSE None]

\* What the user types into each entry.
Typed ==
    [blood_sugar |-> {<<"9", "5">>, <<"1", "7", "0">>, <<"3", "0", "1">>,
                      <<"a", "b", "c">>},
     bmi |-> {<<"2", "2">>, <<"-", "1">>, <<"n", "a", "n">>},
     age |-> {<<"2", "5">>, <<"7", "0">>}]

Init ==
    /\ diagnosis_sim = NewSimulation
    /\ rules = RuleBase
    /\ InitIdle
    /\ InitApp
    /\ probe = NoProbe

UnchangedEngine == UNCHANGED <<diagnosis_sim, pc, args, ret, stdout, rules, probe>>

\* The user edits one entry.
TypeField(v, text) ==
    /\ msgbox = None
    /\ fields' = [fields EXCEPT ![v] = text]
    /\ UNCHANGED <<result_label, figure, msgbox>>
    /\ UnchangedEngine

\* DiabetesApp.assess_risk, the command of 'Assess Risk'.
App_assess_risk ==
    /\ msgbox = None
    /\ stdout < MaxPrinted
    /\ IF ~Parses(fields)
       THEN /\ msgbox' = Some([title |-> "Error", key |-> ""])
            /\ UNCHANGED <<result_label, figure>>
            /\ UNCHANGED <<diagnosis_sim, pc, args, ret, stdout>>
       ELSE IF validate_inputs(Values(fields)) # None
       THEN /\ msgbox' = Some([title |-> "Invalid Input",
                               key |-> Val(validate_inputs(Values(fields)))])
            /\ UNCHANGED <<result_label, figure>>
            /\ UNCHANGED <<diagnosis_sim, pc, args, ret, stdout>>
       ELSE \E a \in {[v \in AntecedentSet |-> Values(fields)[v].v]} :
            \E r \in {assess_risk(diagnosis_sim, rules, a)} :
                /\ diagnosis_sim' = r.sim
                /\ args' = [args EXCEPT !["A"] = a]
                /\ ret' = [ret EXCEPT !["A"] = r.ret]
                /\ pc' = [pc EXCEPT !["A"] = "done"]
                /\ stdout' = stdout + (IF r.printed THEN 1 ELSE 0)
                /\ result_label' = update_result_display(r.ret)
                /\ figure' = plot_membership_functions(fields)
                /\ UNCHANGED msgbox
    /\ UNCHANGED <<fields, rules, probe>>

\* DiabetesApp.update_visualization, the command of 'Update Visualization'.
update_visualization ==
    /\ msgbox = None
    /\ figure' = plot_membership_functions(fields)
    /\ UNCHANGED <<fields, result_label, msgbox>>
    /\ UnchangedEngine

\* The user closes the message box.
Dismiss ==
    /\ msgbox # None
    /\ msgbox' = None
    /\ UNCHANGED <<fields, result_label, figure>>
    /\ UnchangedEngine

Next ==
    \/ \E v \in AntecedentSet : \E text \in Typed[v] : TypeField(v, text)
    \/ App_assess_risk
    \/ update_visualization
    \/ Dismiss

Spec == Init /\ [][Next]_vars

-----------------------------------------------------------------------------
(* Properties                                                              *)

Done == pc["A"] = "done"

\* The per-simulation state of the current inputs.
Last == StateOf(diagnosis_sim, UniqueId(diagnosis_sim))

Firing(l) == Val(Last.firing[l])

NoRuleFired == \A l \in Labels : Firing(l) = 0

IsZero(r) == r.w = 0 /\ r.n = 0

\* What the same call returns on a freshly constructed instance.
Fresh(a) == assess_risk(NewSimulation, RuleBase, a).ret

MinOf(S) == CHOOSE m \in S : \A z \in S : m <= z

MaxOf(S) == CHOOSE m \in S : \A z \in S : z <= m

\* C1 (SpecCalls): after any sequence of earlier assess_risk calls on the
\* same instance, fallbacks included, a call returns what the same call
\* returns on a freshly constructed instance.
C1_SameAsFresh == Done => ret["A"] = Fresh(args["A"])

\* A successful call that follows a fallback and two other successful calls.
C1_Witness ==
    /\ Done
    /\ stdout >= 1
    /\ Cardinality(diagnosis_sim.calculated) >= 3
    /\ args["A"] = Scenario1
    /\ ret["A"].w = 18

\* C2 (SpecConc): whatever the interleaving of the lines of two calls on
\* the shared instance, each call returns what it returns when run alone.
C2_CallsIsolated ==
    \A c \in Callers : pc[c] = "done" => ret[c] = Fresh(args[c])

C4_ScoreInRange ==
    Done => ret["A"].w >= 0 /\ Below(ret["A"], 100)

C4_Witness ==
    /\ Done
    /\ args["A"] = Scenario2
    /\ ret["A"].w = 86
    /\ 3 * ret["A"].n = 2 * ret["A"].d

AcceptedRange ==
    [blood_sugar |-> <<0, 300>>, bmi |-> <<0, 50>>, age |-> <<0, 100>>]

InputError ==
    \/ ~Parses(fields)
    \/ \E v \in AntecedentSet :
           \/ ParseFloat(fields[v]).nan
           \/ ParseFloat(fields[v]).v < AcceptedRange[v][1]
           \/ ParseFloat(fields[v]).v > AcceptedRange[v][2]

\* C5 (Spec): an 'Assess Risk' click on entries that are not numeric or out
\* of range shows a message box, leaves the result label and the figure as
\* they were, and does not call the engine.
C5_InputErrorKeepsScreen ==
    [][InputError /\ App_assess_risk =>
          /\ msgbox' # None
          /\ result_label' = result_label
          /\ figure' = figure
          /\ diagnosis_sim' = diagnosis_sim
          /\ ret' = ret
          /\ stdout' = stdout]_vars

\* A validation message is up while an earlier assessment is on screen.
C5_Witness ==
    /\ msgbox # None
    /\ InputError
    /\ result_label.category = "High"
    /\ figure.drawn

CategoryOfTerm == [low |-> "Low", medium |-> "Medium", high |-> "High"]

FiredTerms == {RuleBase[l].cons : l \in {k \in Labels : Firing(k) > 0}}

\* C6 (SpecEngine): the score is Low below 40, Medium below 70, else High;
\* when every rule that fires targets one risk term the category is that
\* term's; scenarios 1, 2, 3 are Low, High, and Medium by rule 3 alone.
C6_CategoryOfScore ==
    Done =>
        LET r == ret["A"]
        IN  /\ Category(r) = "Low" <=> Below(r, 40)
            /\ Category(r) = "Medium" <=> ~Below(r, 40) /\ Below(r, 70)
            /\ Category(r) = "High" <=> ~Below(r, 70)
            /\ \A t \in RiskTerms :
                   FiredTerms = {t} => Category(r) = CategoryOfTerm[t]
            /\ args["A"] = Scenario1 => Category(r) = "Low"
            /\ args["A"] = Scenario2 => Category(r) = "High"
            /\ args["A"] = Scenario3 =>
                   /\ Category(r) = "Medium"
                   /\ {l \in Labels : Firing(l) > 0} = {3}

C6_Witness ==
    /\ Done
    /\ args["A"] = Scenario3
    /\ Firing(3) = 400
    /\ Category(ret["A"]) = "Medium"

StrideOf ==
    [blood_sugar |-> BloodSugarStride, bmi |-> BmiStride, age |-> AgeStride]

Mentioned(r) == {r.ante[i][1] : i \in DOMAIN r.ante}

DegreesOf(r, a) ==
    {Scaled(mf(r.ante[i][1], r.ante[i][2], a[r.ante[i][1]])) : i \in DOMAIN r.ante}

\* C7 (SpecEngine): the firing strength of every rule is the minimum of
\* the degrees of its antecedent pairs at the inputs, and does not change
\* with the input of a variable the rule does not mention.
C7_FiringIsMin ==
    Done =>
        \A l \in Labels :
            /\ Firing(l) = MinOf(DegreesOf(RuleBase[l], args["A"]))
            /\ \A v \in AntecedentSet \ Mentioned(RuleBase[l]) :
               \A x \in Samples(v, StrideOf[v]) :
                   AntecedentValue(RuleBase[l], Fuzz([args["A"] EXCEPT ![v] = x]))
                       = Firing(l)

\* Scenario 1: degrees 3/4, 1 and 1/6 give rule 1 the strength 1/6.
C7_Witness ==
    /\ Done
    /\ args["A"] = Scenario1
    /\ DegreesOf(RuleBase[1], args["A"]) = {450, 600, 100}
    /\ Firing(1) = 100

Targeting(t) == {l \in Labels : RuleBase[l].cons = t}

ClippedMax(t, x15) ==
    MaxOf({fmin(interp_membership(t, x15), Firing(l)) : l \in Targeting(t)} \cup {0})

\* C8 (SpecEngine): at every grid point the aggregated membership of a
\* risk term is the maximum over the rules targeting it of min(degree,
\* firing strength), the curve is the maximum over the terms, and the
\* score is the one the rule list gives in its original order.
C8_AggregationIsMax ==
    Done =>
        /\ \A k \in Universe("risk") :
               /\ \A t \in RiskTerms :
                      Clipped(Last.cut, t, k * XScale) = ClippedMax(t, k * XScale)
               /\ output_mf(Last.cut, k * XScale)
                      = MaxOf({ClippedMax(t, k * XScale) : t \in RiskTerms})
        /\ ret["A"] = Fresh(args["A"])

\* Rules 6 and 7 fire on high with strengths 1/3 and 1/2, rule list permuted.
C8_Witness ==
    /\ Done
    /\ rules # RuleBase
    /\ args["A"] = TwoHighRules
    /\ Firing(6) = 200
    /\ Firing(7) = 300
    /\ Last.cut["high"] = Some(300)

\* C9 (SpecEngine): for every validated input the call returns exactly 0
\* if and only if no rule has positive firing strength.
C9_ZeroIffNoRule == Done => (IsZero(ret["A"]) <=> NoRuleFired)

C9_Witness ==
    /\ Done
    /\ ~NoRuleFired
    /\ args["A"] = Scenario1
    /\ Below(ret["A"], 19) /\ ~Below(ret["A"], 18)

\* C10 (SpecMF): every membership array holds, at every point of its
\* universe, a degree in [0,1] with a non-zero denominator; a triangle with
\* a = b is 1 at a, and a term whose last two points coincide is 1 from
\* there to the end of the universe.
C10_DegreeInUnit ==
    probe.degree # None =>
        LET f == Val(probe.degree)
            p == MFParams[probe.v][probe.t]
            n == Len(p)
        IN  /\ f.d > 0
            /\ 0 <= f.n /\ f.n <= f.d
            /\ p[1] = p[2] /\ 2 * probe.x = p[1] => f.n = f.d
            /\ p[n - 1] = p[n] /\ 2 * probe.x >= p[n - 1] => f.n = f.d

C10_Witness ==
    /\ probe.degree = Some(One)
    /\ probe.v = "blood_sugar"
    /\ probe.t = "very_high"
    /\ probe.x = 300

====
